---- MODULE Spec2Model ----
(***************************************************************************)
(* Model of libiio's XML backend (xml.c): the construction of an           *)
(* iio_context from a parsed libxml2 document tree, with the allocation    *)
(* failures and the clean-up paths of the C code.                          *)
(*                                                                         *)
(* Memory is modelled as a heap of objects; an address is an index in the  *)
(* heap, NULL is 0.  Every call of calloc, strdup or realloc is counted,   *)
(* and the call whose number is failAt returns NULL.                       *)
(***************************************************************************)
EXTENDS Naturals, Integers, Sequences, FiniteSets, TLC

VARIABLES
    pc,         \* pc[p]: position of caller p inside the entry point
    input,      \* input[p]: what the caller hands to the entry point
    doc,        \* doc[p]: the xmlDoc of the call: NULL or a handle
    mem,        \* mem[p]: heap, allocation counter and event log of the call
    ctx,        \* ctx[p]: the local variable ctx of the entry point
    ret,        \* ret[p]: the value returned to the caller
    trace,      \* trace[p]: the entry point's steps so far
    parser      \* process-wide state of the XML parser library

vars == <<pc, input, doc, mem, ctx, ret, trace, parser>>

NULL == 0

----------------------------------------------------------------------------
(* The document tree: xmlNode and xmlAttr.                                 *)

Prop(name, content) == [name |-> name, content |-> content]

Node(name, props, children) ==
    [name |-> name, props |-> props, children |-> children]

----------------------------------------------------------------------------
(* The heap.                                                               *)

\* One heap object.  kind is "ctx", "dev", "chn", "str" or "arr"; node is the
\* path of the document node the object was created for; role tells which
\* property a string copies.
Obj(kind, node, role) ==
    [kind |-> kind, node |-> node, role |-> role,
     live |-> TRUE, frees |-> 0,
     str |-> "", id |-> NULL, name |-> NULL,
     attrs |-> NULL, nb_attrs |-> 0,
     subs |-> NULL, nb_subs |-> 0,
     parent |-> NULL, is_output |-> FALSE,
     elems |-> <<>>, cname |-> "", ops |-> ""]

Ev(op, what, at) == [op |-> op, what |-> what, at |-> at]

NewMem(f) == [heap |-> <<>>, n |-> 0, failAt |-> f, failed |-> FALSE, log |-> <<>>]

Ret(m, r) == [m |-> m, ret |-> r]

Logged(m, e) == [m EXCEPT !.log = Append(@, e)]

\* How the log names an object: a list by its role, the rest by their kind.
What(obj) == IF obj.kind = "arr" THEN obj.role ELSE obj.kind

\* An allocation of the C library: the failAt-th call returns NULL.
malloc(m, obj) ==
    IF m.n + 1 = m.failAt
    THEN Ret([m EXCEPT !.n = @ + 1, !.failed = TRUE,
                       !.log = Append(@, Ev("allocfail", What(obj), obj.node))],
             NULL)
    ELSE Ret([m EXCEPT !.n = @ + 1,
                       !.heap = Append(@, obj),
                       !.log = Append(@, Ev("alloc", What(obj), <<Len(m.heap) + 1>>))],
             Len(m.heap) + 1)

calloc(m, kind, node) == malloc(m, Obj(kind, node, ""))

\* A variant of strdup that makes no copy: the result is the document's own
\* string (kind "doc"), which lives as long as the document does.
strdup_alias(m, content, node, role) ==
    malloc(m, [Obj("doc", node, role) EXCEPT !.str = content])

strdup(m, content, node, role) ==
    malloc(m, [Obj("str", node, role) EXCEPT !.str = content])

\* realloc(ptr, (1 + nb) * size): a failure leaves the old block as it is; a
\* success keeps the entries (the block is modelled as growing in place).
realloc(m, ptr, node, role) ==
    IF ptr = NULL
    THEN malloc(m, Obj("arr", node, role))
    ELSE IF m.n + 1 = m.failAt
         THEN Ret([m EXCEPT !.n = @ + 1, !.failed = TRUE,
                            !.log = Append(@, Ev("allocfail", role, node))],
                  NULL)
         ELSE Ret([m EXCEPT !.n = @ + 1], ptr)

free(m, ptr) ==
    [m EXCEPT !.heap[ptr].live = FALSE,
              !.heap[ptr].frees = @ + 1,
              !.log = Append(@, Ev("free", m.heap[ptr].kind, <<ptr>>))]

RECURSIVE FreeAll(_, _, _)
\* for (i = 0; i < nb; i++) free(ptrs[i]);
FreeAll(m, ptrs, i) ==
    IF i > Len(ptrs) THEN m ELSE FreeAll(free(m, ptrs[i]), ptrs, i + 1)

FreeIf(m, ptr) == IF ptr # NULL THEN free(m, ptr) ELSE m

\* The entries of the array an owner's list pointer refers to.
Elems(m, arr) == IF arr = NULL THEN <<>> ELSE m.heap[arr].elems

----------------------------------------------------------------------------
(* free_channel and free_device of iio-private.h (context.c, device.c,     *)
(* channel.c): every attribute name, the list, name, id, then the object.  *)

\* if (nb_attrs) free(attrs);
FreeAttrList(m, o) ==
    IF m.heap[o].nb_attrs > 0 THEN free(m, m.heap[o].attrs) ELSE m

\* The attribute names of an object, then the list that holds them.
FreeAttrs(m, o) == FreeAttrList(FreeAll(m, Elems(m, m.heap[o].attrs), 1), o)

\* if (name) free(name); if (id) free(id); free(o);
FreeNamed(m, o) ==
    free(FreeIf(FreeIf(m, m.heap[o].name), m.heap[o].id), o)

free_channel(m, chn) == FreeNamed(FreeAttrs(m, chn), chn)

RECURSIVE FreeChannels(_, _, _)
FreeChannels(m, chns, i) ==
    IF i > Len(chns) THEN m
    ELSE FreeChannels(free_channel(m, chns[i]), chns, i + 1)

\* if (nb_channels) free(channels);
FreeChannelList(m, dev) ==
    IF m.heap[dev].nb_subs > 0 THEN free(m, m.heap[dev].subs) ELSE m

FreeDevChannels(m, dev) ==
    FreeChannelList(FreeChannels(m, Elems(m, m.heap[dev].subs), 1), dev)

free_device(m, dev) == FreeNamed(FreeDevChannels(FreeAttrs(m, dev), dev), dev)

----------------------------------------------------------------------------
(* AttributeCollector: add_attr_to_channel and add_attr_to_device.         *)

RECURSIVE ScanAttrName(_, _, _, _, _)
\* The property loop: every property called "name" is copied into the local
\* variable name, which the copy overwrites; any other property is a warning.
ScanAttrName(m, name, props, i, path) ==
    IF i > Len(props) THEN Ret(m, name)
    ELSE IF props[i].name = "name"
         THEN LET r == strdup(m, props[i].content, path, "attr")
              IN  ScanAttrName(r.m, r.ret, props, i + 1, path)
         ELSE ScanAttrName(Logged(m, Ev("warning", props[i].name, path)),
                           name, props, i + 1, path)

\* err_free: if (name) free(name); return -1;
AttrErrFree(m, name) == Ret(FreeIf(m, name), -1)

\* AppendAttr storing the new name in front of the list.
AppendAttr_front(m, owner, name, path) ==
    IF name = NULL THEN AttrErrFree(m, name)
    ELSE LET r == realloc(m, m.heap[owner].attrs, path, "attrs")
         IN  IF r.ret = NULL THEN AttrErrFree(r.m, name)
             ELSE Ret([r.m EXCEPT !.heap[r.ret].elems = <<name>> \o @,
                                  !.heap[owner].nb_attrs = @ + 1,
                                  !.heap[owner].attrs = r.ret],
                      0)

\* From "if (!name)" on: grow the owner's list by one and store the name.
AppendAttr(m, owner, name, path) ==
    IF name = NULL THEN AttrErrFree(m, name)
    ELSE LET r == realloc(m, m.heap[owner].attrs, path, "attrs")
         IN  IF r.ret = NULL THEN AttrErrFree(r.m, name)
             ELSE Ret([r.m EXCEPT !.heap[r.ret].elems = Append(@, name),
                                  !.heap[owner].nb_attrs = @ + 1,
                                  !.heap[owner].attrs = r.ret],
                      0)

add_attr_to_channel(m, chn, n, path) ==
    LET m0 == Logged(m, Ev("call", "add_attr_to_channel", path))
        s  == ScanAttrName(m0, NULL, n.props, 1, path)
    IN  AppendAttr(s.m, chn, s.ret, path)

add_attr_to_device(m, dev, n, path) ==
    LET m0 == Logged(m, Ev("call", "add_attr_to_device", path))
        s  == ScanAttrName(m0, NULL, n.props, 1, path)
    IN  AppendAttr(s.m, dev, s.ret, path)

----------------------------------------------------------------------------
(* ChannelBuilder: create_channel.                                         *)

Warned(m, what, path) == Logged(m, Ev("warning", what, path))

\* A variant of ChnType in which every value but "input" sets is_output.
ChnType_lax(m, chn, content, path) ==
    IF content # "input"
    THEN [m EXCEPT !.heap[chn].is_output = TRUE]
    ELSE m

\* ChnType in which the value "input" resets the direction.
ChnType_lastwins(m, chn, content, path) ==
    IF content = "output" THEN [m EXCEPT !.heap[chn].is_output = TRUE]
    ELSE IF content = "input" THEN [m EXCEPT !.heap[chn].is_output = FALSE]
    ELSE Warned(m, content, path)

\* The "type" property: "output" sets is_output, "input" leaves the channel
\* as it is, anything else is a warning.
ChnType(m, chn, content, path) ==
    IF content = "output"
    THEN [m EXCEPT !.heap[chn].is_output = TRUE]
    ELSE IF content # "input"
         THEN Warned(m, content, path)
         ELSE m

RECURSIVE ChnProps(_, _, _, _, _)
\* for (attr = n->properties; attr; attr = attr->next)
ChnProps(m, chn, props, i, path) ==
    IF i > Len(props) THEN m
    ELSE LET a == props[i] IN
         IF a.name = "name"
         THEN LET r == strdup(m, a.content, path, "name")
              IN  ChnProps([r.m EXCEPT !.heap[chn].name = r.ret],
                           chn, props, i + 1, path)
         ELSE IF a.name = "id"
         THEN LET r == strdup(m, a.content, path, "id")
              IN  ChnProps([r.m EXCEPT !.heap[chn].id = r.ret],
                           chn, props, i + 1, path)
         ELSE IF a.name = "type"
         THEN ChnProps(ChnType(m, chn, a.content, path), chn, props, i + 1, path)
         ELSE ChnProps(Warned(m, a.name, path), chn, props, i + 1, path)

RECURSIVE ChnChildren(_, _, _, _, _)

\* After one attribute child: a failure ends the loop with -1.
ChnNextChild(r, chn, kids, i, path) ==
    IF r.ret < 0 THEN Ret(r.m, -1)
    ELSE ChnChildren(r.m, chn, kids, i + 1, path)

\* for (n = n->children; n; n = n->next): 0 at the end of the list, -1 when
\* an attribute child fails.
ChnChildren(m, chn, kids, i, path) ==
    IF i > Len(kids) THEN Ret(m, 0)
    ELSE IF kids[i].name = "attribute"
         THEN ChnNextChild(add_attr_to_channel(m, chn, kids[i], Append(path, i)),
                           chn, kids, i, path)
         ELSE IF kids[i].name # "text"
         THEN ChnChildren(Warned(m, kids[i].name, Append(path, i)),
                          chn, kids, i + 1, path)
         ELSE ChnChildren(m, chn, kids, i + 1, path)

\* A variant of ChnIdMissing that never finds the id missing.
ChnIdMissing_never(m, chn) == FALSE

\* if (!chn->id)
ChnIdMissing(m, chn) == m.heap[chn].id = NULL

\* The end of create_channel: return chn, or err_free_channel.
ChnFinish(k, chn) ==
    IF k.ret < 0
    THEN Ret(free_channel(k.m, chn), NULL)
    ELSE Ret(k.m, chn)

\* create_channel once the properties are read.
ChnBody(m, chn, n, path) ==
    IF ChnIdMissing(m, chn)
    THEN Ret(free_channel(m, chn), NULL)
    ELSE ChnFinish(ChnChildren(m, chn, n.children, 1, path), chn)

\* ChnInit without the back-reference chn->dev = dev.
ChnInit_nodev(r, dev, n, path) ==
    IF r.ret = NULL THEN Ret(r.m, NULL)
    ELSE ChnBody(ChnProps(r.m, r.ret, n.props, 1, path), r.ret, n, path)

\* create_channel after its calloc.
ChnInit(r, dev, n, path) ==
    IF r.ret = NULL THEN Ret(r.m, NULL)
    ELSE ChnBody(ChnProps([r.m EXCEPT !.heap[r.ret].parent = dev],
                          r.ret, n.props, 1, path),
                 r.ret, n, path)

create_channel(m, dev, n, path) ==
    ChnInit(calloc(Logged(m, Ev("call", "create_channel", path)), "chn", path),
            dev, n, path)

----------------------------------------------------------------------------
(* DeviceBuilder: create_device.                                           *)

RECURSIVE DevProps(_, _, _, _, _)
DevProps(m, dev, props, i, path) ==
    IF i > Len(props) THEN m
    ELSE LET a == props[i] IN
         IF a.name = "name"
         THEN LET r == strdup(m, a.content, path, "name")
              IN  DevProps([r.m EXCEPT !.heap[dev].name = r.ret],
                           dev, props, i + 1, path)
         ELSE IF a.name = "id"
         THEN LET r == strdup(m, a.content, path, "id")
              IN  DevProps([r.m EXCEPT !.heap[dev].id = r.ret],
                           dev, props, i + 1, path)
         ELSE DevProps(Warned(m, a.name, path), dev, props, i + 1, path)

\* The channel list could not grow: free(chn), the channel object alone.
DevDropChannel(m, chn) == free(m, chn)

\* chns = realloc(...); if (!chns) {free(chn); goto err} else store chn.
DevStoreChannel(r, dev, chn) ==
    IF r.ret = NULL
    THEN Ret(DevDropChannel(r.m, chn), -1)
    ELSE Ret([r.m EXCEPT !.heap[r.ret].elems = Append(@, chn),
                         !.heap[dev].nb_subs = @ + 1,
                         !.heap[dev].subs = r.ret],
             0)

\* chn = create_channel(dev, n); if (!chn) goto err; then grow the list.
DevGotChannel(c, dev, path) ==
    IF c.ret = NULL THEN Ret(c.m, -1)
    ELSE DevStoreChannel(realloc(c.m, c.m.heap[dev].subs, path, "channels"),
                         dev, c.ret)

\* One "channel" child of a device node.
DevAddChannel(m, dev, n, path) ==
    DevGotChannel(create_channel(m, dev, n, path), dev, path)

RECURSIVE DevChildren(_, _, _, _, _)

DevNextChild(r, dev, kids, i, path) ==
    IF r.ret < 0 THEN Ret(r.m, -1)
    ELSE DevChildren(r.m, dev, kids, i + 1, path)

\* for (n = n->children; n; n = n->next)
DevChildren(m, dev, kids, i, path) ==
    IF i > Len(kids) THEN Ret(m, 0)
    ELSE IF kids[i].name = "channel"
         THEN DevNextChild(DevAddChannel(m, dev, kids[i], Append(path, i)),
                           dev, kids, i, path)
         ELSE IF kids[i].name = "attribute"
         THEN DevNextChild(add_attr_to_device(m, dev, kids[i], Append(path, i)),
                           dev, kids, i, path)
         ELSE IF kids[i].name # "text"
         THEN DevChildren(Warned(m, kids[i].name, Append(path, i)),
                          dev, kids, i + 1, path)
         ELSE DevChildren(m, dev, kids, i + 1, path)

\* A variant of DevIdMissing that never finds the id missing.
DevIdMissing_never(m, dev) == FALSE

\* if (!dev->id)
DevIdMissing(m, dev) == m.heap[dev].id = NULL

\* The end of create_device: return dev, or err_free_device.
DevFinish(k, dev) ==
    IF k.ret < 0
    THEN Ret(free_device(k.m, dev), NULL)
    ELSE Ret(k.m, dev)

\* create_device once the properties are read.
DevBody(m, dev, n, path) ==
    IF DevIdMissing(m, dev)
    THEN Ret(free_device(m, dev), NULL)
    ELSE DevFinish(DevChildren(m, dev, n.children, 1, path), dev)

\* create_device after its calloc.
DevInit(r, c, n, path) ==
    IF r.ret = NULL THEN Ret(r.m, NULL)
    ELSE DevBody(DevProps([r.m EXCEPT !.heap[r.ret].parent = c],
                          r.ret, n.props, 1, path),
                 r.ret, n, path)

create_device(m, c, n, path) ==
    DevInit(calloc(Logged(m, Ev("call", "create_device", path)), "dev", path),
            c, n, path)

----------------------------------------------------------------------------
(* ContextBuilder: iio_create_xml_context_helper.                          *)

\* A variant of RootIsContext that ignores the case of the first letter.
RootIsContext_nocase(root) == root.name \in {"context", "Context"}

\* strcmp((char *) root->name, "context") == 0
RootIsContext(root) == root.name = "context"

\* The device list could not grow: free(dev), the device object alone.
CtxDropDevice(m, dev) == free(m, dev)

\* A variant of CtxStoreDevice that puts the new device first.
CtxStoreDevice_front(r, c, dev) ==
    IF r.ret = NULL
    THEN Ret(free(r.m, dev), -1)
    ELSE Ret([r.m EXCEPT !.heap[r.ret].elems = <<dev>> \o @,
                         !.heap[c].nb_subs = @ + 1,
                         !.heap[c].subs = r.ret],
             0)

\* devs = realloc(...); if (!devs) {free(dev); goto err} else store dev.
CtxStoreDevice(r, c, dev) ==
    IF r.ret = NULL
    THEN Ret(CtxDropDevice(r.m, dev), -1)
    ELSE Ret([r.m EXCEPT !.heap[r.ret].elems = Append(@, dev),
                         !.heap[c].nb_subs = @ + 1,
                         !.heap[c].subs = r.ret],
             0)

\* dev = create_device(ctx, n); if (!dev) goto err; then grow the list.
CtxGotDevice(d, c) ==
    IF d.ret = NULL THEN Ret(d.m, -1)
    ELSE CtxStoreDevice(realloc(d.m, d.m.heap[c].subs, <<>>, "devices"),
                        c, d.ret)

\* One "device" child of the root.
CtxAddDevice(m, c, n, path) ==
    CtxGotDevice(create_device(m, c, n, path), c)

\* A variant of CtxIsDevice that takes every element for a device.
CtxIsDevice_any(n) == n.name # "text"

\* strcmp((char *) n->name, "device") == 0
CtxIsDevice(n) == n.name = "device"

RECURSIVE CtxChildren(_, _, _, _)

CtxNextChild(r, c, kids, i) ==
    IF r.ret < 0 THEN Ret(r.m, -1)
    ELSE CtxChildren(r.m, c, kids, i + 1)

\* for (n = root->children; n; n = n->next)
CtxChildren(m, c, kids, i) ==
    IF i > Len(kids) THEN Ret(m, 0)
    ELSE IF ~CtxIsDevice(kids[i])
         THEN IF kids[i].name # "text"
              THEN CtxChildren(Warned(m, kids[i].name, <<i>>), c, kids, i + 1)
              ELSE CtxChildren(m, c, kids, i + 1)
         ELSE CtxNextChild(CtxAddDevice(m, c, kids[i], <<i>>), c, kids, i)

RECURSIVE FreeDevices(_, _, _)
FreeDevices(m, devs, i) ==
    IF i > Len(devs) THEN m
    ELSE FreeDevices(free_device(m, devs[i]), devs, i + 1)

\* if (ctx->nb_devices) free(ctx->devices);
FreeDeviceList(m, c) ==
    IF m.heap[c].nb_subs > 0 THEN free(m, m.heap[c].subs) ELSE m

\* err_free_devices: every device of the list, then the list itself.
ErrFreeDevices(m, c) ==
    FreeDeviceList(FreeDevices(m, Elems(m, m.heap[c].subs), 1), c)

\* The end of the helper: return ctx, or err_free_devices and err_free_ctx.
CtxFinish(k, c) ==
    IF k.ret < 0
    THEN Ret(free(ErrFreeDevices(k.m, c), c), NULL)
    ELSE Ret(k.m, c)

\* The helper once ctx->name and ctx->ops are set.
CtxBody(m, c, root) ==
    IF ~RootIsContext(root)
    THEN Ret(free(m, c), NULL)
    ELSE CtxFinish(CtxChildren(m, c, root.children, 1), c)

\* CtxInit leaving ctx->ops as calloc made it.
CtxInit_noops(r, root) ==
    IF r.ret = NULL THEN Ret(r.m, NULL)
    ELSE CtxBody([r.m EXCEPT !.heap[r.ret].cname = "xml"], r.ret, root)

\* The helper after its calloc.
CtxInit(r, root) ==
    IF r.ret = NULL THEN Ret(r.m, NULL)
    ELSE CtxBody([r.m EXCEPT !.heap[r.ret].cname = "xml",
                             !.heap[r.ret].ops = "xml_ops"],
                 r.ret, root)

iio_create_xml_context_helper(m, root) ==
    CtxInit(calloc(Logged(m, Ev("call", "iio_create_xml_context_helper", <<>>)),
                   "ctx", <<>>),
            root)

----------------------------------------------------------------------------
(* The documents the entry points are called on.  Roots are documents in  *)
(* which no node names a property twice; RepeatedRoots are documents in    *)
(* which one does: the builders compare attr->name, the local name, so     *)
(* id="a" and x:id="b" on one element are two properties called id.        *)

MaxChnKids == 2     \* children of a channel node
MaxDevKids == 2     \* children of a device node
MaxRootKids == 2    \* children of the root node
MaxFail == 16       \* the allocation that fails is one of the first MaxFail

SeqsUpTo(S, n) == UNION {[1..k -> S] : k \in 0..n}

Attr(props) == Node("attribute", props, <<>>)

AttrScale  == Attr(<<Prop("name", "scale")>>)
AttrBias   == Attr(<<Prop("name", "calibbias")>>)
AttrNoName == Attr(<<Prop("filename", "in_raw")>>)
AttrExtra  == Attr(<<Prop("filename", "in_raw"), Prop("name", "raw")>>)
AttrTwice  == Attr(<<Prop("name", "scale"), Prop("name", "raw")>>)

TextNode == Node("text", <<>>, <<>>)

\* An element the builders do not know, with content they must not descend into.
DebugNode == Node("debug", <<Prop("level", "3")>>, <<AttrScale>>)

Chan(props, kids) == Node("channel", props, kids)

ChanPropsSet ==
    { <<Prop("id", "voltage0")>>,
      <<Prop("id", "voltage0"), Prop("name", "vin"), Prop("type", "output")>>,
      <<Prop("type", "input"), Prop("id", "voltage1")>>,
      <<Prop("id", "voltage1"), Prop("type", "garbage"), Prop("index", "1")>>,
      <<Prop("id", "")>>,
      <<Prop("name", "vin"), Prop("type", "output")>>,
      <<>> }

ChanKidSet == {AttrScale, AttrBias, AttrNoName, AttrExtra, TextNode, DebugNode}

ChanNodes ==
    {Chan(p, <<AttrScale>>) : p \in ChanPropsSet}
    \cup {Chan(<<Prop("id", "voltage0")>>, k) : k \in SeqsUpTo(ChanKidSet, MaxChnKids)}

Dev(props, kids) == Node("device", props, kids)

ChanOut == Chan(<<Prop("id", "voltage0"), Prop("type", "output")>>, <<AttrScale>>)
ChanIn  == Chan(<<Prop("id", "voltage1"), Prop("name", "vin")>>, <<>>)
ChanNoId == Chan(<<Prop("name", "vin")>>, <<AttrScale>>)

DevPropsSet ==
    { <<Prop("id", "dev0")>>,
      <<Prop("name", "adc"), Prop("id", "dev0")>>,
      <<Prop("id", "dev0"), Prop("vendor", "adi")>>,
      <<Prop("id", "")>>,
      <<Prop("name", "adc")>>,
      <<>> }

DevKidSet == {ChanOut, ChanIn, ChanNoId, AttrBias, AttrNoName, TextNode, DebugNode}

DevNodes ==
    {Dev(p, <<ChanOut, AttrBias>>) : p \in DevPropsSet}
    \cup {Dev(<<Prop("id", "dev0")>>, k) : k \in SeqsUpTo(DevKidSet, MaxDevKids)}
    \cup {Dev(<<Prop("id", "dev0")>>, <<c>>) : c \in ChanNodes}
    \cup {Dev(<<Prop("id", "dev0")>>, <<AttrExtra>>)}

DevPlain == Dev(<<Prop("id", "dev0")>>, <<>>)
DevFull  == Dev(<<Prop("id", "dev1"), Prop("name", "adc")>>, <<ChanOut, AttrBias>>)
DevNoId  == Dev(<<>>, <<Chan(<<Prop("id", "x")>>, <<>>)>>)
DevBadChan == Dev(<<Prop("id", "dev2")>>, <<ChanIn, ChanNoId>>)
DevNoisy ==
    Dev(<<Prop("vendor", "adi"), Prop("id", "dev3")>>,
        <<DebugNode,
          Chan(<<Prop("id", "voltage2"), Prop("index", "2")>>, <<DebugNode, AttrExtra>>)>>)

RootKidSet ==
    {DevPlain, DevFull, DevNoId, DevBadChan, DevNoisy, TextNode, DebugNode, ChanOut}

Roots ==
    {Node("context", <<>>, <<d>>) : d \in DevNodes}
    \cup {Node("context", <<>>, k) : k \in SeqsUpTo(RootKidSet, MaxRootKids)}
    \cup {Node(t, <<>>, k) : t \in {"Context", "iio"},
                             k \in {<<>>, <<DevPlain>>, <<DevFull, DevNoId>>}}

ChanPropsRepeated ==
    { <<Prop("type", "output"), Prop("id", "voltage0"), Prop("type", "input")>>,
      <<Prop("type", "input"), Prop("id", "voltage0"), Prop("type", "output")>>,
      <<Prop("id", "voltage0"), Prop("id", "voltage1")>>,
      <<Prop("name", "vin"), Prop("id", "voltage0"), Prop("name", "vout")>>,
      <<Prop("name", "vin"), Prop("name", "vout")>> }

DevPropsRepeated ==
    { <<Prop("id", "dev0"), Prop("id", "dev1")>>,
      <<Prop("name", "adc"), Prop("id", "dev0"), Prop("name", "dac")>>,
      <<Prop("name", "adc"), Prop("name", "dac")>> }

DevNodesRepeated ==
    {Dev(p, <<ChanOut, AttrBias>>) : p \in DevPropsRepeated}
    \cup {Dev(<<Prop("id", "dev0")>>, <<Chan(p, <<AttrScale>>)>>) : p \in ChanPropsRepeated}
    \cup {Dev(<<Prop("id", "dev0")>>, <<a>>) : a \in {AttrTwice, AttrNoName}}
    \cup {Dev(<<Prop("id", "dev0")>>, <<Chan(<<Prop("id", "voltage0")>>, <<AttrTwice>>)>>)}

RepeatedRoots ==
    {Node("context", <<>>, <<d>>) : d \in DevNodesRepeated}
    \cup {Node("context", <<>>, <<DevPlain, d>>) : d \in DevNodesRepeated}

Procs == {1, 2}

\* What a caller passes: a file name or a buffer, which the parser accepts
\* (giving the tree root) or rejects.
InputsOn(roots) ==
    {[kind |-> k, parseOk |-> TRUE, root |-> r] : k \in {"file", "mem"}, r \in roots}
    \cup {[kind |-> k, parseOk |-> FALSE, root |-> TextNode] : k \in {"file", "mem"}}

NoInput == [kind |-> "file", parseOk |-> FALSE, root |-> TextNode]

NoDoc == [exists |-> FALSE, live |-> FALSE, frees |-> 0, root |-> TextNode]

----------------------------------------------------------------------------
(* The entry points iio_create_xml_context and iio_create_xml_context_mem. *)

Step(s, d) == [step |-> s, docLive |-> d.exists /\ d.live]

InitOn(roots) ==
    /\ pc = [p \in Procs |-> IF p = 1 THEN "start" ELSE "idle"]
    /\ \E i \in InputsOn(roots) : input = [p \in Procs |-> IF p = 1 THEN i ELSE NoInput]
    /\ doc = [p \in Procs |-> NoDoc]
    /\ \E f \in 0..MaxFail : mem = [p \in Procs |-> NewMem(IF p = 1 THEN f ELSE 0)]
    /\ ctx = [p \in Procs |-> NULL]
    /\ ret = [p \in Procs |-> NULL]
    /\ trace = [p \in Procs |-> <<>>]
    /\ parser = [initialized |-> FALSE, cleanups |-> 0, cleanedWhileLive |-> FALSE]

Init == InitOn(Roots)

InitRepeated == InitOn(RepeatedRoots)

\* LIBXML_TEST_VERSION: xmlCheckVersion initialises the parser library.
TestVersion(p) ==
    /\ pc[p] = "start"
    /\ parser' = [parser EXCEPT !.initialized = TRUE]
    /\ pc' = [pc EXCEPT ![p] = "read"]
    /\ trace' = [trace EXCEPT ![p] = Append(@, Step("test_version", doc[p]))]
    /\ UNCHANGED <<input, doc, mem, ctx, ret>>

\* doc = xmlRead...(); if (!doc) return NULL;
Parse(p) ==
    IF input[p].parseOk
    THEN /\ doc' = [doc EXCEPT ![p] = [exists |-> TRUE, live |-> TRUE, frees |-> 0,
                                       root |-> input[p].root]]
         /\ pc' = [pc EXCEPT ![p] = "helper"]
         /\ trace' = [trace EXCEPT ![p] = Append(@, Step("parsed", doc'[p]))]
         /\ UNCHANGED ret
    ELSE /\ doc' = [doc EXCEPT ![p] = NoDoc]
         /\ pc' = [pc EXCEPT ![p] = "done"]
         /\ ret' = [ret EXCEPT ![p] = NULL]
         /\ trace' = [trace EXCEPT ![p] = Append(@, Step("parse_failed", doc'[p]))]

XmlReadFile(p) ==
    /\ pc[p] = "read"
    /\ input[p].kind = "file"
    /\ Parse(p)
    /\ UNCHANGED <<input, mem, ctx, parser>>

XmlReadMemory(p) ==
    /\ pc[p] = "read"
    /\ input[p].kind = "mem"
    /\ Parse(p)
    /\ UNCHANGED <<input, mem, ctx, parser>>

\* ctx = iio_create_xml_context_helper(doc);
Helper(p) ==
    /\ pc[p] = "helper"
    /\ LET r == iio_create_xml_context_helper(mem[p], doc[p].root)
       IN  /\ mem' = [mem EXCEPT ![p] = r.m]
           /\ ctx' = [ctx EXCEPT ![p] = r.ret]
    /\ pc' = [pc EXCEPT ![p] = "free_doc"]
    /\ trace' = [trace EXCEPT ![p] = Append(@, Step("helper", doc[p]))]
    /\ UNCHANGED <<input, doc, ret, parser>>

\* A variant of XmlFreeDoc that keeps the document of a failed build.
XmlFreeDoc_onSuccess(p) ==
    /\ pc[p] = "free_doc"
    /\ doc' = IF ctx[p] = NULL THEN doc
              ELSE [doc EXCEPT ![p].live = FALSE, ![p].frees = @ + 1]
    /\ pc' = [pc EXCEPT ![p] = "cleanup"]
    /\ trace' = [trace EXCEPT ![p] = Append(@, Step("free_doc", doc[p]))]
    /\ UNCHANGED <<input, mem, ctx, ret, parser>>

\* A variant of XmlFreeDoc that goes on to the cleanup with the document kept.
XmlFreeDoc_skipped(p) ==
    /\ pc[p] = "free_doc"
    /\ pc' = [pc EXCEPT ![p] = "cleanup"]
    /\ trace' = [trace EXCEPT ![p] = Append(@, Step("free_doc", doc[p]))]
    /\ UNCHANGED <<input, doc, mem, ctx, ret, parser>>

\* xmlFreeDoc(doc);
XmlFreeDoc(p) ==
    /\ pc[p] = "free_doc"
    /\ doc' = [doc EXCEPT ![p].live = FALSE, ![p].frees = @ + 1]
    /\ pc' = [pc EXCEPT ![p] = "cleanup"]
    /\ trace' = [trace EXCEPT ![p] = Append(@, Step("free_doc", doc[p]))]
    /\ UNCHANGED <<input, mem, ctx, ret, parser>>

\* Call q is between its parser check and the end of its parse, or holds a
\* document it has not released.
ParserInUse(q) == pc[q] = "read" \/ (doc[q].exists /\ doc[q].live)

\* xmlCleanupParser(); it acts on the whole process.
XmlCleanupParser(p) ==
    /\ pc[p] = "cleanup"
    /\ parser' = [parser EXCEPT !.initialized = FALSE,
                                !.cleanups = @ + 1,
                                !.cleanedWhileLive = @ \/ \E q \in Procs : ParserInUse(q)]
    /\ pc' = [pc EXCEPT ![p] = "return"]
    /\ trace' = [trace EXCEPT ![p] = Append(@, Step("cleanup", doc[p]))]
    /\ UNCHANGED <<input, doc, mem, ctx, ret>>

\* return ctx;
Return(p) ==
    /\ pc[p] = "return"
    /\ ret' = [ret EXCEPT ![p] = ctx[p]]
    /\ pc' = [pc EXCEPT ![p] = "done"]
    /\ trace' = [trace EXCEPT ![p] = Append(@, Step("return", doc[p]))]
    /\ UNCHANGED <<input, doc, mem, ctx, parser>>

Next ==
    \E p \in Procs :
        \/ TestVersion(p)
        \/ XmlReadFile(p)
        \/ XmlReadMemory(p)
        \/ Helper(p)
        \/ XmlFreeDoc(p)
        \/ XmlCleanupParser(p)
        \/ Return(p)

Spec == Init /\ [][Next]_vars

\* The same calls on documents that name a property twice on one node.
SpecRepeated == InitRepeated /\ [][Next]_vars

\* Two calls of the entry points in one process.  The code takes no lock
\* (there is none in either entry point), so whether the calls overlap is the
\* caller's choice: serialized says that the caller lets one call return
\* before it makes the next.
ConcRoots == {Node("context", <<>>, <<DevPlain>>), Node("iio", <<>>, <<DevPlain>>)}

InitConc ==
    /\ pc = [p \in Procs |-> "waiting"]
    /\ input \in [Procs -> InputsOn(ConcRoots)]
    /\ doc = [p \in Procs |-> NoDoc]
    /\ mem = [p \in Procs |-> NewMem(0)]
    /\ ctx = [p \in Procs |-> NULL]
    /\ ret = [p \in Procs |-> NULL]
    /\ trace = [p \in Procs |-> <<>>]
    /\ \E s \in BOOLEAN :
          parser = [initialized |-> FALSE, cleanups |-> 0,
                    cleanedWhileLive |-> FALSE, serialized |-> s]

\* The caller enters iio_create_xml_context or iio_create_xml_context_mem.
Call(p) ==
    /\ pc[p] = "waiting"
    /\ parser.serialized => \A q \in Procs \ {p} : pc[q] \in {"waiting", "done"}
    /\ pc' = [pc EXCEPT ![p] = "start"]
    /\ UNCHANGED <<input, doc, mem, ctx, ret, trace, parser>>

NextConc == Next \/ \E p \in Procs : Call(p)

SpecConc == InitConc /\ [][NextConc]_vars

----------------------------------------------------------------------------
(* What a Context holds, read from the heap.                               *)

\* A char pointer: <<>> for NULL, <<s>> for a string s.
StrAt(m, a) == IF a = NULL THEN <<>> ELSE <<m.heap[a].str>>

Names(m, o) ==
    [i \in 1..m.heap[o].nb_attrs |-> m.heap[Elems(m, m.heap[o].attrs)[i]].str]

ChnView(m, chn) ==
    [id |-> StrAt(m, m.heap[chn].id), name |-> StrAt(m, m.heap[chn].name),
     is_output |-> m.heap[chn].is_output, attrs |-> Names(m, chn)]

Channels(m, dev) == Elems(m, m.heap[dev].subs)

DevView(m, dev) ==
    [id |-> StrAt(m, m.heap[dev].id), name |-> StrAt(m, m.heap[dev].name),
     attrs |-> Names(m, dev),
     channels |-> [j \in 1..m.heap[dev].nb_subs |-> ChnView(m, Channels(m, dev)[j])]]

Devices(m, c) == Elems(m, m.heap[c].subs)

\* <<>> for no result, else the one Context.
View(m, c) ==
    IF c = NULL THEN <<>>
    ELSE << [name |-> m.heap[c].cname, ops |-> m.heap[c].ops,
             devices |-> [i \in 1..m.heap[c].nb_subs |-> DevView(m, Devices(m, c)[i])]] >>

\* The same without the direction, the tag and the operation table.
ChnShape(v) == [id |-> v.id, name |-> v.name, attrs |-> v.attrs]

DevShape(v) ==
    [id |-> v.id, name |-> v.name, attrs |-> v.attrs,
     channels |-> [j \in 1..Len(v.channels) |-> ChnShape(v.channels[j])]]

Shape(m, c) == [i \in 1..m.heap[c].nb_subs |-> DevShape(DevView(m, Devices(m, c)[i]))]

----------------------------------------------------------------------------
(* What a document says, read from the tree.                               *)

HasProp(n, name) == \E i \in 1..Len(n.props) : n.props[i].name = name

PropValues(n, name) ==
    LET ps == SelectSeq(n.props, LAMBDA a : a.name = name)
    IN  [i \in 1..Len(ps) |-> ps[i].content]

\* The last value a property has on a node: <<>> when it has none.
LastProp(n, name) ==
    LET vs == PropValues(n, name)
    IN  IF vs = <<>> THEN <<>> ELSE <<vs[Len(vs)]>>

Kids(n, tag) == SelectSeq(n.children, LAMBDA k : k.name = tag)

DocNames(n) ==
    LET as == Kids(n, "attribute")
    IN  [i \in 1..Len(as) |-> LastProp(as[i], "name")[1]]

DocChn(n) ==
    [id |-> LastProp(n, "id"), name |-> LastProp(n, "name"), attrs |-> DocNames(n)]

DocDev(n) ==
    LET cs == Kids(n, "channel")
    IN  [id |-> LastProp(n, "id"), name |-> LastProp(n, "name"),
         attrs |-> DocNames(n),
         channels |-> [j \in 1..Len(cs) |-> DocChn(cs[j])]]

DocShape(root) ==
    LET ds == Kids(root, "device")
    IN  [i \in 1..Len(ds) |-> DocDev(ds[i])]

Range(q) == {q[i] : i \in 1..Len(q)}

AttrsNamed(n) == \A a \in Range(Kids(n, "attribute")) : HasProp(a, "name")

\* Root tag context, an id on every device and channel, a name on every
\* attribute.
WellFormed(root) ==
    /\ root.name = "context"
    /\ \A d \in Range(Kids(root, "device")) :
          /\ HasProp(d, "id")
          /\ AttrsNamed(d)
          /\ \A c \in Range(Kids(d, "channel")) : HasProp(c, "id") /\ AttrsNamed(c)

RECURSIVE NodeAt(_, _)
\* The node a path of child indices leads to.
NodeAt(n, path) ==
    IF path = <<>> THEN n ELSE NodeAt(n.children[Head(path)], Tail(path))

IsPrefix(a, b) == Len(a) <= Len(b) /\ SubSeq(b, 1, Len(a)) = a

Heap(p) == mem[p].heap
Log(p) == mem[p].log

Called(p, fn) == {Log(p)[i].at : i \in {j \in 1..Len(Log(p)) : Log(p)[j].op = "call"
                                                           /\ Log(p)[j].what = fn}}

AllocFailed(p, what) ==
    \E i \in 1..Len(Log(p)) : Log(p)[i].op = "allocfail" /\ Log(p)[i].what = what

Live(p) == {a \in 1..Len(Heap(p)) : Heap(p)[a].live}

Done(p) == pc[p] = "done"
Built(p) == pc[p] \in {"free_doc", "cleanup", "return", "done"}

HelperRan(p) == \E i \in 1..Len(trace[p]) : trace[p][i].step = "helper"

Root(p) == input[p].root

----------------------------------------------------------------------------
(* C1.  Whenever a step of a build fails (the parse, the root tag, a      *)
(* missing id or name, an allocation), the entry point returns no result. *)

StepFailed(p) ==
    \/ ~input[p].parseOk
    \/ ~WellFormed(Root(p))
    \/ mem[p].failed

C1_FailureGivesNoResult ==
    \A p \in Procs : Done(p) /\ StepFailed(p) => ret[p] = NULL

\* What does hold: a returned Context never lacks a device, a channel or an
\* attribute of a well-formed document.
C1_NoPartialStructure ==
    \A p \in Procs :
        Done(p) /\ ret[p] # NULL
            => WellFormed(Root(p))
               /\ \A i \in 1..Len(Shape(mem[p], ret[p])) :
                     LET g == Shape(mem[p], ret[p])[i]
                         w == DocShape(Root(p))[i]
                     IN  /\ Len(Shape(mem[p], ret[p])) = Len(DocShape(Root(p)))
                         /\ g.attrs = w.attrs
                         /\ Len(g.channels) = Len(w.channels)
                         /\ \A j \in 1..Len(g.channels) :
                               g.channels[j].attrs = w.channels[j].attrs

----------------------------------------------------------------------------
(* C3.  Round trip: a well-formed document built without an allocation     *)
(* failure gives a Context with the document's devices, channels and       *)
(* attribute names, in document order, with the ids and names of the nodes.*)

C3_RoundTrip ==
    \A p \in Procs :
        Done(p) /\ input[p].parseOk /\ WellFormed(Root(p)) /\ ~mem[p].failed
            => ret[p] # NULL /\ Shape(mem[p], ret[p]) = DocShape(Root(p))

C3_Witness ==
    /\ Done(1) /\ ret[1] # NULL /\ ~mem[1].failed
    /\ Len(DocShape(Root(1))) = 2
    /\ DocShape(Root(1))[1] # DocShape(Root(1))[2]
    /\ Len(DocShape(Root(1))[2].channels) = 1
    /\ Len(DocShape(Root(1))[2].attrs) = 1

----------------------------------------------------------------------------
(* C2.  When building a device fails after earlier devices were appended,  *)
(* the earlier devices with their channels and attribute names are         *)
(* released, then the context object; no result is returned and nothing    *)
(* allocated during the build stays live.                                  *)

\* create_device returned NULL with at least one device in ctx->devices.
LaterDeviceFailed(p) ==
    /\ HelperRan(p) /\ ctx[p] = NULL
    /\ Root(p).name = "context"
    /\ Len(Heap(p)) >= 1 /\ Heap(p)[1].kind = "ctx"
    /\ Heap(p)[1].nb_subs >= 1
    /\ ~AllocFailed(p, "devices")

ContextFreedLast(p) ==
    /\ Log(p) # <<>>
    /\ Log(p)[Len(Log(p))] = Ev("free", "ctx", <<1>>)

C2_SiblingRollback ==
    \A p \in Procs :
        LaterDeviceFailed(p)
            => /\ Live(p) = {}
               /\ \A a \in 1..Len(Heap(p)) : Heap(p)[a].frees = 1
               /\ ContextFreedLast(p)
               /\ (Done(p) => ret[p] = NULL)

\* What does hold: the same when the device did not fail on the growth of
\* its channel list.
C2_SiblingRollbackButGrowth ==
    \A p \in Procs :
        LaterDeviceFailed(p) /\ ~AllocFailed(p, "channels")
            => /\ Live(p) = {}
               /\ \A a \in 1..Len(Heap(p)) : Heap(p)[a].frees = 1
               /\ ContextFreedLast(p)
               /\ (Done(p) => ret[p] = NULL)

----------------------------------------------------------------------------
(* C4.  When the parse succeeds the document is released exactly once,     *)
(* after the helper has returned, whether the helper succeeded or not;     *)
(* when the parse fails there is no document, the helper is never called   *)
(* and no result is returned.                                              *)

C4_DocumentReleasedOnce ==
    \A p \in Procs :
        /\ doc[p].frees <= 1
        /\ (doc[p].frees = 1 => HelperRan(p))
        /\ \A i \in 1..Len(trace[p]) :
              trace[p][i].step = "helper" => trace[p][i].docLive
        /\ Done(p) /\ input[p].parseOk
              => doc[p].exists /\ ~doc[p].live /\ doc[p].frees = 1
        /\ ~input[p].parseOk /\ pc[p] \notin {"idle", "start", "read"}
              => /\ Done(p) /\ ~doc[p].exists /\ ~HelperRan(p)
                 /\ Log(p) = <<>> /\ ret[p] = NULL

C4_Witness ==
    /\ Done(1) /\ input[1].parseOk /\ ret[1] = NULL
    /\ doc[1].frees = 1 /\ ~doc[1].live

----------------------------------------------------------------------------
(* C5.  When the root tag is not exactly "context" the helper returns no   *)
(* result, create_device is never called, and the context object           *)
(* allocated before the check is released.                                 *)

C5_RootTagChecked ==
    \A p \in Procs :
        HelperRan(p) /\ Root(p).name # "context"
            => /\ ctx[p] = NULL
               /\ Called(p, "create_device") = {}
               /\ \A a \in 1..Len(Heap(p)) :
                     Heap(p)[a].kind = "ctx" /\ ~Heap(p)[a].live /\ Heap(p)[a].frees = 1
               /\ (Done(p) => ret[p] = NULL)

C5_Witness ==
    /\ Done(1) /\ Root(1).name = "Context"
    /\ Kids(Root(1), "device") # <<>>
    /\ Len(Heap(1)) = 1 /\ ~Heap(1)[1].live

----------------------------------------------------------------------------
(* C6.  A channel built from a node without a type property is an input;   *)
(* with type "output" it is an output; with type "input", or any other     *)
(* value, it is an input, and the other value does not fail the build.     *)
(* (The node has one type property at most.)                               *)

ReturnedDevices(p) == Range(Devices(mem[p], ret[p]))

ReturnedChannels(p) ==
    UNION {Range(Channels(mem[p], d)) : d \in ReturnedDevices(p)}

TypeOf(p, a) == PropValues(NodeAt(Root(p), Heap(p)[a].node), "type")

HasOddType(root) ==
    \E d \in Range(Kids(root, "device")) : \E c \in Range(Kids(d, "channel")) :
        \E v \in Range(PropValues(c, "type")) : v \notin {"input", "output"}

C6_Direction ==
    \A p \in Procs :
        /\ Done(p) /\ ret[p] # NULL
              => \A a \in ReturnedChannels(p) :
                    Len(TypeOf(p, a)) <= 1
                        => (Heap(p)[a].is_output <=> TypeOf(p, a) = <<"output">>)
        /\ Done(p) /\ input[p].parseOk /\ WellFormed(Root(p)) /\ ~mem[p].failed
                   /\ HasOddType(Root(p))
              => ret[p] # NULL

C6_Witness ==
    /\ Done(1) /\ ret[1] # NULL
    /\ \E a \in ReturnedChannels(1) :
          TypeOf(1, a) = <<"garbage">> /\ ~Heap(1)[a].is_output

----------------------------------------------------------------------------
(* C7.  Unknown content changes nothing: the build of a document gives     *)
(* the Context (or the failure) that the build of the same document        *)
(* without its unknown child elements and unknown properties gives.        *)

KeepProps(n, known) == SelectSeq(n.props, LAMBDA a : a.name \in known)

KeepKids(n, known) == SelectSeq(n.children, LAMBDA k : k.name \in known)

StripAttr(n) ==
    IF n.name # "attribute" THEN n
    ELSE Node(n.name, KeepProps(n, {"name"}), n.children)

StripChn(n) ==
    IF n.name # "channel" THEN StripAttr(n)
    ELSE LET ks == KeepKids(n, {"attribute", "text"})
         IN  Node(n.name, KeepProps(n, {"id", "name", "type"}),
                  [i \in 1..Len(ks) |-> StripAttr(ks[i])])

StripDev(n) ==
    IF n.name # "device" THEN n
    ELSE LET ks == KeepKids(n, {"channel", "attribute", "text"})
         IN  Node(n.name, KeepProps(n, {"id", "name"}),
                  [i \in 1..Len(ks) |-> StripChn(ks[i])])

\* The document without the elements and properties the builders do not know.
Strip(root) ==
    LET ks == KeepKids(root, {"device", "text"})
    IN  Node(root.name, root.props, [i \in 1..Len(ks) |-> StripDev(ks[i])])

BuildOf(root, f) ==
    LET r == iio_create_xml_context_helper(NewMem(f), root)
    IN  View(r.m, r.ret)

C7_UnknownContentTolerated ==
    \A p \in Procs :
        HelperRan(p)
            => View(mem[p], ctx[p]) = BuildOf(Strip(Root(p)), mem[p].failAt)

C7_Witness ==
    /\ Done(1) /\ ret[1] # NULL
    /\ KeepKids(Root(1), {"device", "text"}) # Root(1).children
    /\ \E d \in Range(Kids(Root(1), "device")) : StripDev(d) # d

----------------------------------------------------------------------------
(* C8.  A device node without id fails before any of its children is       *)
(* visited: nothing is called or allocated for a child, the device object  *)
(* is released and the build gives no result; the same for a channel node  *)
(* without id and its attribute children.                                  *)

Below(path, q) == IsPrefix(path, q) /\ q # path

NothingBelow(p, path) ==
    /\ \A i \in 1..Len(Log(p)) :
          Log(p)[i].op \in {"call", "warning", "allocfail"} => ~Below(path, Log(p)[i].at)
    /\ \A a \in 1..Len(Heap(p)) : ~Below(path, Heap(p)[a].node)

Released(p, kind, path) ==
    \A a \in 1..Len(Heap(p)) :
        Heap(p)[a].kind = kind /\ Heap(p)[a].node = path
            => ~Heap(p)[a].live /\ Heap(p)[a].frees = 1

NoId(p, path) == ~HasProp(NodeAt(Root(p), path), "id")

C8_MissingIdStopsBeforeChildren ==
    \A p \in Procs :
        HelperRan(p)
            => /\ \A path \in Called(p, "create_device") :
                     NoId(p, path)
                         => /\ NothingBelow(p, path)
                            /\ Released(p, "dev", path)
                            /\ ctx[p] = NULL
               /\ \A path \in Called(p, "create_channel") :
                     NoId(p, path)
                         => /\ NothingBelow(p, path)
                            /\ Released(p, "chn", path)
                            /\ ctx[p] = NULL

C8_Witness ==
    /\ Done(1) /\ ret[1] = NULL
    /\ \E path \in Called(1, "create_device") :
          /\ NoId(1, path)
          /\ Kids(NodeAt(Root(1), path), "channel") # <<>>
          /\ \E a \in 1..Len(Heap(1)) :
                Heap(1)[a].kind = "dev" /\ Heap(1)[a].node = path /\ ~Heap(1)[a].live

----------------------------------------------------------------------------
(* C9.  Every device and channel of a returned Context has an identifier   *)
(* that is present and not empty.                                          *)

Identified(p) == ReturnedDevices(p) \cup ReturnedChannels(p)

C9_IdsNotEmpty ==
    \A p \in Procs :
        Done(p) /\ ret[p] # NULL
            => \A a \in Identified(p) :
                  Heap(p)[a].id # NULL /\ Heap(p)[Heap(p)[a].id].str # ""

\* C9 as amended: the identifier is present, a live copy of a value the
\* node's id property has, which may be the empty string.
C9_IdsPresent ==
    \A p \in Procs :
        Done(p) /\ ret[p] # NULL
            => \A a \in Identified(p) :
                  /\ Heap(p)[a].id # NULL
                  /\ Heap(p)[Heap(p)[a].id].live
                  /\ Heap(p)[Heap(p)[a].id].str
                        \in Range(PropValues(NodeAt(Root(p), Heap(p)[a].node), "id"))

C9_Witness ==
    /\ Done(1) /\ ret[1] # NULL
    /\ \E a \in ReturnedChannels(1) : ChnView(mem[1], a).id = <<"">>

----------------------------------------------------------------------------
(* C10.  When the growth of a device's channel list or of the context's    *)
(* device list fails, the build fails and everything built so far is       *)
(* released, the just-built channel or device with its strings included.   *)

GrowthFailed(p) == AllocFailed(p, "channels") \/ AllocFailed(p, "devices")

C10_GrowthFailureRollsBack ==
    \A p \in Procs :
        HelperRan(p) /\ GrowthFailed(p) => ctx[p] = NULL /\ Live(p) = {}

----------------------------------------------------------------------------
(* C11.  If an allocation of a build fails, whichever it is, the entry     *)
(* point returns no result; a returned Context never lacks a display name  *)
(* or another field the document gives.                                    *)

C11_AnyAllocationErrorFails ==
    \A p \in Procs :
        /\ Done(p) /\ mem[p].failed => ret[p] = NULL
        /\ Done(p) /\ ret[p] # NULL => Shape(mem[p], ret[p]) = DocShape(Root(p))

\* What does hold: a failed calloc or realloc gives no result.
C11_CheckedAllocationErrorFails ==
    \A p \in Procs :
        Done(p) /\ (\E i \in 1..Len(Log(p)) :
                       /\ Log(p)[i].op = "allocfail"
                       /\ Log(p)[i].what # "str")
            => ret[p] = NULL

----------------------------------------------------------------------------
(* The AttributeCollector on its own: add_attr_to_channel and              *)
(* add_attr_to_device applied, call after call, to one owner.              *)

MaxAttrCalls == 3

AttrNodes == {AttrScale, AttrBias, AttrNoName, AttrExtra, AttrTwice}

\* The owner as calloc leaves it: no attribute list yet.
InitAttr ==
    /\ pc = [p \in Procs |-> IF p = 1 THEN "attr" ELSE "idle"]
    /\ input = [p \in Procs |-> NoInput]
    /\ doc = [p \in Procs |-> NoDoc]
    /\ \E kind \in {"chn", "dev"} :
          mem = [p \in Procs |-> IF p = 1 THEN calloc(NewMem(0), kind, <<>>).m
                                 ELSE NewMem(0)]
    /\ ctx = [p \in Procs |-> IF p = 1 THEN 1 ELSE NULL]
    /\ ret = [p \in Procs |-> 0]
    /\ trace = [p \in Procs |-> <<>>]
    /\ parser = [initialized |-> FALSE, cleanups |-> 0, cleanedWhileLive |-> FALSE]

\* The memory in which the k-th allocation from now on fails (k = 0: none).
FailNext(m, k) == [m EXCEPT !.failAt = IF k = 0 THEN 0 ELSE m.n + k]

\* The allocations one call can attempt: a copy per property and the list.
AttrAllocs(n) == Len(n.props) + 1

AttrCalled(p, n, r) ==
    /\ mem' = [mem EXCEPT ![p] = r.m]
    /\ ret' = [ret EXCEPT ![p] = r.ret]
    /\ input' = [input EXCEPT ![p].root = n]
    /\ trace' = [trace EXCEPT ![p] = Append(@, Step("add_attr", doc[p]))]
    /\ UNCHANGED <<pc, doc, ctx, parser>>

\* if (!strcmp((char *) n->name, "attribute")) add_attr_to_channel(chn, n)
AddAttrToChannel(p) ==
    /\ pc[p] = "attr"
    /\ mem[p].heap[ctx[p]].kind = "chn"
    /\ Len(trace[p]) < MaxAttrCalls
    /\ \E n \in AttrNodes : \E k \in 0..AttrAllocs(n) :
          AttrCalled(p, n, add_attr_to_channel(FailNext(mem[p], k), ctx[p], n,
                                               <<Len(trace[p]) + 1>>))

\* if (!strcmp((char *) n->name, "attribute")) add_attr_to_device(dev, n)
AddAttrToDevice(p) ==
    /\ pc[p] = "attr"
    /\ mem[p].heap[ctx[p]].kind = "dev"
    /\ Len(trace[p]) < MaxAttrCalls
    /\ \E n \in AttrNodes : \E k \in 0..AttrAllocs(n) :
          AttrCalled(p, n, add_attr_to_device(FailNext(mem[p], k), ctx[p], n,
                                              <<Len(trace[p]) + 1>>))

NextAttr == \E p \in Procs : AddAttrToChannel(p) \/ AddAttrToDevice(p)

SpecAttr == InitAttr /\ [][NextAttr]_vars

AttrList(m, o) == Elems(m, m.heap[o].attrs)

AllocFailedIn(es, what) ==
    \E i \in 1..Len(es) : es[i].op = "allocfail" /\ es[i].what = what

\* The events the step appends to the log of caller p.
NewEvents(p) == SubSeq(mem'[p].log, Len(mem[p].log) + 1, Len(mem'[p].log))

\* The copy the local variable name holds when the property loop ends: the
\* result of the last strdup the call attempted, <<>> if there is none.
NameCopy(p) ==
    LET es == SelectSeq(NewEvents(p), LAMBDA e : e.op \in {"alloc", "allocfail"}
                                                 /\ e.what = "str")
    IN  IF es = <<>> \/ es[Len(es)].op = "allocfail" THEN <<>>
        ELSE es[Len(es)].at

\* A failing call leaves list and count as they were and has released the copy.
AttrFailureFrame(p) ==
    LET o == ctx[p] IN
    /\ mem'[p].heap[o] = mem[p].heap[o]
    /\ AttrList(mem'[p], o) = AttrList(mem[p], o)
    /\ Names(mem'[p], o) = Names(mem[p], o)
    /\ \A a \in Range(AttrList(mem[p], o)) : mem'[p].heap[a] = mem[p].heap[a]
    /\ \A a \in Range(NameCopy(p)) : ~mem'[p].heap[a].live

\* A successful call appends the copy of the name, and nothing else changes.
AttrSuccessFrame(p) ==
    LET o == ctx[p] IN
    /\ mem'[p].heap[o].nb_attrs = mem[p].heap[o].nb_attrs + 1
    /\ NameCopy(p) # <<>>
    /\ AttrList(mem'[p], o) = AttrList(mem[p], o) \o NameCopy(p)
    /\ Names(mem'[p], o) = Append(Names(mem[p], o), LastProp(input'[p].root, "name")[1])
    /\ \A a \in Range(AttrList(mem'[p], o)) : mem'[p].heap[a].live
    /\ \A a \in Range(AttrList(mem[p], o)) : mem'[p].heap[a] = mem[p].heap[a]

(* C12.  A failing call of the AttributeCollector leaves the owner's list  *)
(* and count unchanged and has released the copied name; a successful call *)
(* grows the list by exactly one, the new name last, every earlier entry   *)
(* keeping its position and value, duplicates included.                    *)
C12_AttributeFrame ==
    [][\A p \in Procs :
          pc[p] = "attr" /\ trace'[p] # trace[p] =>
              /\ ret'[p] \in {0, -1}
              /\ ret'[p] = -1 => AttrFailureFrame(p)
              /\ ret'[p] = 0 => AttrSuccessFrame(p)
              /\ ret'[p] = -1 <=> \/ ~HasProp(input'[p].root, "name")
                                  \/ NameCopy(p) = <<>>
                                  \/ AllocFailedIn(NewEvents(p), "attrs")]_vars

\* A list with a name twice, and then a call that failed growing it.
C12_Witness ==
    /\ pc[1] = "attr" /\ ret[1] = -1
    /\ AllocFailed(1, "attrs")
    /\ Len(Names(mem[1], ctx[1])) = 2
    /\ Names(mem[1], ctx[1])[1] = Names(mem[1], ctx[1])[2]
    /\ \E a \in 1..Len(Heap(1)) : Heap(1)[a].kind = "str" /\ ~Heap(1)[a].live

----------------------------------------------------------------------------
\* The document node an object was built for.
NodeOf(p, a) == NodeAt(Root(p), Heap(p)[a].node)

\* id and name of a returned object are the last values the document gives.
LastIdAndName(p, a) ==
    /\ StrAt(mem[p], Heap(p)[a].id) = LastProp(NodeOf(p, a), "id")
    /\ ~mem[p].failed
          => StrAt(mem[p], Heap(p)[a].name) = LastProp(NodeOf(p, a), "name")

----------------------------------------------------------------------------
\* The objects of one kind on the heap of caller p, released or not.
ObjsOf(p, kind) == {a \in 1..Len(Heap(p)) : Heap(p)[a].kind = kind}

\* The places <<owner, index>> at which the lists of the owners hold object a.
Holders(p, owners, a) ==
    {x \in owners \X (1..Len(Heap(p))) :
        /\ x[2] <= Len(Elems(mem[p], Heap(p)[x[1]].subs))
        /\ Elems(mem[p], Heap(p)[x[1]].subs)[x[2]] = a}

\* Object a is in at most one place, in exactly one while it is live, and
\* its back-reference is the owner holding it.
OwnedOnce(p, owners, a) ==
    /\ Cardinality(Holders(p, owners, a)) <= 1
    /\ Heap(p)[a].live => Cardinality(Holders(p, owners, a)) = 1
    /\ Heap(p)[a].parent \in owners
    /\ \A x \in Holders(p, owners, a) : Heap(p)[a].parent = x[1]

\* The count of an owner is the length of its list.
CountsMatch(p, a) == Heap(p)[a].nb_subs = Len(Elems(mem[p], Heap(p)[a].subs))

ReleasedAtMostOnce(p) ==
    \A a \in 1..Len(Heap(p)) :
        /\ Heap(p)[a].frees <= 1
        /\ Heap(p)[a].live <=> Heap(p)[a].frees = 0

\* Releasing channel c, or device d, now would leave the parent as it is.
ChildReleaseKeepsParent(p) ==
    /\ \A c \in ObjsOf(p, "chn") :
          Heap(p)[c].live
              => free_channel(mem[p], c).heap[Heap(p)[c].parent]
                     = Heap(p)[Heap(p)[c].parent]
    /\ \A d \in ObjsOf(p, "dev") :
          Heap(p)[d].live
              => free_device(mem[p], d).heap[Heap(p)[d].parent]
                     = Heap(p)[Heap(p)[d].parent]

----------------------------------------------------------------------------
\* The steps of a call that are left at each position: a call moves from
\* position to position and takes no step after the last.
StepsLeft(p) ==
    CASE pc[p] = "start"    -> 6
      [] pc[p] = "read"     -> 5
      [] pc[p] = "helper"   -> 4
      [] pc[p] = "free_doc" -> 3
      [] pc[p] = "cleanup"  -> 2
      [] pc[p] = "return"   -> 1
      [] OTHER              -> 0

\* The build of caller p has stopped or is on its way: the steps taken and
\* the steps left never exceed the length of the entry point.
StopsOrSteps(p) ==
    /\ pc[p] \in {"idle", "start", "read", "helper", "free_doc", "cleanup",
                  "return", "done"}
    /\ Len(trace[p]) + StepsLeft(p) <= 6

\* The Context holds the whole document.
CompleteSuccess(p) ==
    /\ ctx[p] # NULL
    /\ Shape(mem[p], ctx[p]) = DocShape(Root(p))
    /\ \A a \in 1..Len(Heap(p)) : Heap(p)[a].live

\* No result, and nothing the call built is still live.
FullRollback(p) == ctx[p] = NULL /\ Live(p) = {}

\* Only error paths release anything: once the first release is logged, no
\* further node is entered, nothing is allocated and nothing is warned of.
NothingAfterFailure(p) ==
    \A i \in 1..Len(Log(p)) : \A j \in 1..Len(Log(p)) :
        i < j /\ Log(p)[i].op = "free" => Log(p)[j].op = "free"

(* C15.  Every build of a finite tree terminates, and ends either with a   *)
(* Context holding the whole document or with no result and nothing it     *)
(* built still live; after the first fatal failure no later sibling is     *)
(* processed.                                                              *)
C15_SuccessOrFullRollback ==
    \A p \in Procs :
        /\ StopsOrSteps(p)
        /\ NothingAfterFailure(p)
        /\ Built(p) => CompleteSuccess(p) \/ FullRollback(p)

\* The part that holds: the build stops, and stops at the first failure.
C15_StopsAtFirstFailure ==
    \A p \in Procs : StopsOrSteps(p) /\ NothingAfterFailure(p)

----------------------------------------------------------------------------
\* The steps caller p has taken, by name.
StepsOf(p) == [i \in 1..Len(trace[p]) |-> trace[p][i].step]

\* A call that parsed its document cleans the parser up once, right after
\* it released the document; a call whose parse failed does not.
CleansAfterRelease(p) ==
    /\ \A i \in 1..Len(trace[p]) :
          StepsOf(p)[i] = "cleanup" => i > 1 /\ StepsOf(p)[i - 1] = "free_doc"
    /\ Done(p) =>
          Cardinality({i \in 1..Len(trace[p]) : StepsOf(p)[i] = "cleanup"})
              = IF input[p].parseOk THEN 1 ELSE 0

(* C16.  The entry points do not serialize the parser's process-wide       *)
(* cleanup: each call that parsed a document runs it after releasing the   *)
(* document, so two overlapping calls can reach a cleanup by one while the *)
(* other is parsing or walking its document; when the caller serializes    *)
(* the calls, the cleanup never runs while a call holds a live document.   *)
C16_SerializedCleanupIsSafe ==
    /\ \A p \in Procs : CleansAfterRelease(p)
    /\ parser.serialized => ~parser.cleanedWhileLive

\* Unserialized calls: one has cleaned the parser up while the other was
\* parsing or held its document.
C16_Witness ==
    /\ ~parser.serialized
    /\ parser.cleanedWhileLive
    /\ \E p \in Procs : \E q \in Procs \ {p} :
          /\ pc[p] = "return"
          /\ pc[q] \in {"read", "helper"}

\* Serialized calls: both have run and cleaned up.
C16_SerializedRun == parser.serialized /\ parser.cleanups = 2

----------------------------------------------------------------------------
\* The name and the operation table of the Context a call returned; the
\* table is "" when ctx->ops is the null pointer calloc left.
Provenance(p) == [name |-> Heap(p)[ret[p]].cname, ops |-> Heap(p)[ret[p]].ops]

(* C17.  Every returned Context carries the constant name xml and a null   *)
(* operation table reference, whatever the document holds.                 *)
C17_XmlNameNullOps ==
    \A p \in Procs :
        Done(p) /\ ret[p] # NULL => Provenance(p) = [name |-> "xml", ops |-> ""]

(* C17 as it holds: every returned Context carries the constant name xml   *)
(* and refers to the one static operation table xml_ops, which is empty;   *)
(* the reference itself is not null.  The document has no part in either.  *)
C17_XmlNameStaticOps ==
    \A p \in Procs :
        /\ Done(p) /\ ret[p] # NULL
              => Provenance(p) = [name |-> "xml", ops |-> "xml_ops"]
        /\ \A a \in ObjsOf(p, "ctx") :
              Heap(p)[a].cname = "xml" /\ Heap(p)[a].ops = "xml_ops"

\* A returned Context built from a document with devices.
C17_Witness ==
    /\ Done(1) /\ ret[1] # NULL
    /\ ReturnedDevices(1) # {}
    /\ Provenance(1).ops = "xml_ops"

----------------------------------------------------------------------------
\* The strings an object holds: id, name and the attribute names.
StringsOf(p, a) ==
    ({Heap(p)[a].id, Heap(p)[a].name} \ {NULL}) \cup Range(AttrList(mem[p], a))

\* The strings reachable from the result of caller p.
StoredStrings(p) ==
    IF ret[p] = NULL THEN {}
    ELSE UNION {StringsOf(p, a) : a \in ReturnedDevices(p) \cup ReturnedChannels(p)}

(* C18.  No copied string is orphaned: when the call returns, every copy   *)
(* made while scanning properties is stored in an object reachable from    *)
(* the result or is released, also when a property name occurs more than   *)
(* once on a node.                                                         *)
C18_NoOrphanedString ==
    \A p \in Procs :
        Done(p) => \A a \in ObjsOf(p, "str") :
                       Heap(p)[a].live => a \in StoredStrings(p)

\* The same for builds in which no allocation fails.
C18_NoOrphanWithoutFailure ==
    \A p \in Procs :
        Done(p) /\ ~mem[p].failed
            => \A a \in ObjsOf(p, "str") : Heap(p)[a].live => a \in StoredStrings(p)

----------------------------------------------------------------------------
\* A string can be read: a copy ("str") while it is not freed, a string of
\* the document only while the document is not released.
Readable(p, a) ==
    IF Heap(p)[a].kind = "str" THEN Heap(p)[a].live
    ELSE doc[p].exists /\ doc[p].live

(* C19.  A returned Context holds no reference into the parsed document:   *)
(* every id, name and attribute name is a copy the Context owns, so all    *)
(* stay valid after the entry point has released the document.             *)
C19_NoReferenceIntoDocument ==
    \A p \in Procs :
        Done(p) /\ ret[p] # NULL =>
            /\ doc[p].exists /\ ~doc[p].live
            /\ \A a \in StoredStrings(p) :
                  /\ Heap(p)[a].kind = "str"
                  /\ Readable(p, a)
                  /\ Cardinality({o \in ReturnedDevices(p) \cup ReturnedChannels(p) :
                                     a \in StringsOf(p, o)}) = 1

\* A returned Context with an id, a name and an attribute name, its
\* document released.
C19_Witness ==
    /\ Done(1) /\ ret[1] # NULL /\ ~doc[1].live
    /\ \E d \in ReturnedDevices(1) :
          /\ Heap(1)[d].id # NULL /\ Heap(1)[d].name # NULL
          /\ AttrList(mem[1], d) # <<>>
          /\ \E c \in Range(Channels(mem[1], d)) : AttrList(mem[1], c) # <<>>

====
